---------------------------- MODULE Spec2Model ----------------------------
(***************************************************************************)
(* Model of src/app.py: the /build-llm-prompt handler and its helpers.     *)
(*                                                                         *)
(* A Python str whose characters the code inspects (a finding's suggestion *)
(* and snippet) is a sequence of one-character strings.  An Optional value *)
(* is a sequence of length at most one: None is << >>, the value v is      *)
(* << v >>.  A str the code only concatenates (the prompt, the assessment) *)
(* is the sequence of the pieces it is concatenated from.  The backquote   *)
(* character (U+0060) cannot be written in a TLA+ string; {bt} stands for  *)
(* it in the two fence pieces, and {hellip} for U+2026 in one bullet.      *)
(***************************************************************************)
EXTENDS Integers, Sequences, FiniteSets, TLC

VARIABLES units, clock, pc, results,
          assessment, today_str, request_text,
          fi, sql, seen, chosen_snippets

vars == <<units, clock, pc, results, assessment, today_str,
          request_text, fi, sql, seen, chosen_snippets>>

\* ------------------------------------------------------------------
\* Bounds of the model
\* ------------------------------------------------------------------
MaxFrags == 3
MaxFindings == 3
MaxUnits == 2
MaxDay == 2

\* ------------------------------------------------------------------
\* Optional[...] values
\* ------------------------------------------------------------------
None == << >>
Some(v) == << v >>
\* Python's  o or ""  for an Optional[str] o
OrEmpty(o) == IF o = None THEN << >> ELSE o[1]

\* ------------------------------------------------------------------
\* Characters and the str methods the code calls
\* ------------------------------------------------------------------
LowerLetters == <<"a", "b", "c", "d", "e", "f", "g", "h", "i", "j", "k", "l", "m",
                  "n", "o", "p", "q", "r", "s", "t", "u", "v", "w", "x", "y", "z">>
UpperLetters == <<"A", "B", "C", "D", "E", "F", "G", "H", "I", "J", "K", "L", "M",
                  "N", "O", "P", "Q", "R", "S", "T", "U", "V", "W", "X", "Y", "Z">>
Digits == {"0", "1", "2", "3", "4", "5", "6", "7", "8", "9"}
LowerSet == {LowerLetters[i] : i \in DOMAIN LowerLetters}
UpperSet == {UpperLetters[i] : i \in DOMAIN UpperLetters}
UpperOf == [c \in LowerSet |-> UpperLetters[CHOOSE i \in DOMAIN LowerLetters : LowerLetters[i] = c]]

\* str.isspace / regex \s
IsSpace(c) == c \in {" ", "\n", "\t", "\r"}
\* regex \w
IsWord(c) == c \in LowerSet \cup UpperSet \cup Digits \cup {"_"}

ToUpper(c) == IF c \in LowerSet THEN UpperOf[c] ELSE c
\* str.upper()
upper(s) == [i \in 1..Len(s) |-> ToUpper(s[i])]

\* s[i:i+len(pat)] == pat
MatchAt(s, i, pat) ==
    /\ i + Len(pat) - 1 <= Len(s)
    /\ \A k \in 1..Len(pat) : s[i + k - 1] = pat[k]
\* the same under re.IGNORECASE
MatchAtCI(s, i, pat) ==
    /\ i + Len(pat) - 1 <= Len(s)
    /\ \A k \in 1..Len(pat) : ToUpper(s[i + k - 1]) = ToUpper(pat[k])

\* str.strip(): drop the leading and the trailing whitespace
strip(s) ==
    LET keep == {i \in 1..Len(s) : ~IsSpace(s[i])}
    IN  IF keep = {} THEN << >>
        ELSE LET lo == CHOOSE i \in keep : \A j \in keep : i <= j
                 hi == CHOOSE i \in keep : \A j \in keep : j <= i
             IN  SubSeq(s, lo, hi)

\* the first index >= i where pat occurs in s, or 0
Find(s, i, pat) ==
    LET hits == {j \in i..(Len(s) - Len(pat) + 1) : MatchAt(s, j, pat)}
    IN  IF hits = {} THEN 0 ELSE CHOOSE j \in hits : \A h \in hits : j <= h

\* str.replace(old, new): left to right, non-overlapping
RECURSIVE ReplaceFrom(_, _, _, _)
ReplaceFrom(s, i, old, new) ==
    LET j == Find(s, i, old)
    IN  IF j = 0 THEN SubSeq(s, i, Len(s))
        ELSE SubSeq(s, i, j - 1) \o new \o ReplaceFrom(s, j + Len(old), old, new)
replace(s, old, new) == ReplaceFrom(s, 1, old, new)

\* str.count(sub): the number of non-overlapping occurrences, left to right
RECURSIVE CountFrom(_, _, _)
CountFrom(s, i, sub) ==
    LET j == Find(s, i, sub)
    IN  IF j = 0 THEN 0 ELSE 1 + CountFrom(s, j + Len(sub), sub)
count(s, sub) == CountFrom(s, 1, sub)

\* ------------------------------------------------------------------
\* Helpers (src/app.py 51-64)
\* ------------------------------------------------------------------
SELECT_TOKEN == <<"S", "E", "L", "E", "C", "T">>
DRAFT_TOKEN == <<"d", "r", "a", "f", "t">>
ESCAPED_CRLF == <<"\\", "r", "\\", "n">>
JOIN_TOKEN == <<" ", "J", "O", "I", "N", " ">>
FAE_TOKEN == <<"F", "O", "R", " ", "A", "L", "L", " ", "E", "N", "T", "R", "I", "E", "S">>

\* SQL_START_RE = ^\s*SELECT\b  (IGNORECASE), used with .search
SQL_START_RE(s) ==
    LET nonsp == {i \in 1..Len(s) : ~IsSpace(s[i])}
        k == IF nonsp = {} THEN Len(s) + 1
             ELSE CHOOSE i \in nonsp : \A j \in nonsp : i <= j
    IN  /\ MatchAtCI(s, k, SELECT_TOKEN)
        /\ (k + 6 > Len(s) \/ ~IsWord(s[k + 6]))

\* HAS_DRAFT_RE = \bdraft\s*=\s*  (IGNORECASE), used with .search
HAS_DRAFT_RE(s) ==
    \E p \in 1..Len(s) :
        /\ (p = 1 \/ ~IsWord(s[p - 1]))
        /\ MatchAtCI(s, p, DRAFT_TOKEN)
        /\ \E q \in (p + 5)..Len(s) :
              /\ s[q] = "="
              /\ \A r \in (p + 5)..(q - 1) : IsSpace(s[r])

_normalize_text(s) ==
    IF s = None \/ s = Some(<< >>) THEN << >>
    ELSE strip(replace(s[1], ESCAPED_CRLF, <<"\n">>))

\* mutant: the pattern compiled without re.IGNORECASE
looks_like_sql_case_sensitive(s) ==
    LET t == strip(s)
    IN  /\ MatchAt(t, 1, SELECT_TOKEN)
        /\ (Len(t) = 6 \/ ~IsWord(t[7]))

_looks_like_sql(s) == SQL_START_RE(s)

_has_draft(s) == HAS_DRAFT_RE(s)


\* ------------------------------------------------------------------
\* choose_best_sql (src/app.py 66-87)
\* ------------------------------------------------------------------
\* mutant: the snippet's SELECT test (rule 3) placed before the draft rule (rule 2)
choose_best_sql_rule3_first(f) ==
    LET suggestion == _normalize_text(f.suggestion)
        snippet == _normalize_text(f.snippet)
    IN  IF _looks_like_sql(suggestion) THEN Some(suggestion)
        ELSE IF _looks_like_sql(snippet) THEN Some(snippet)
        ELSE IF _has_draft(suggestion) /\ ~_has_draft(snippet) /\ suggestion # << >>
             THEN Some(suggestion)
        ELSE IF suggestion # << >> THEN Some(suggestion)
        ELSE IF snippet # << >> THEN Some(snippet)
        ELSE None

\* mutant: the fallback of line 87 written  snippet or suggestion or None
choose_best_sql_snippet_preferred(f) ==
    LET suggestion == _normalize_text(f.suggestion)
        snippet == _normalize_text(f.snippet)
    IN  IF _looks_like_sql(suggestion) THEN Some(suggestion)
        ELSE IF _has_draft(suggestion) /\ ~_has_draft(snippet) /\ suggestion # << >>
             THEN Some(suggestion)
        ELSE IF _looks_like_sql(snippet) THEN Some(snippet)
        ELSE IF snippet # << >> THEN Some(snippet)
        ELSE IF suggestion # << >> THEN Some(suggestion)
        ELSE None

choose_best_sql(f) ==
    LET suggestion == _normalize_text(f.suggestion)
        snippet == _normalize_text(f.snippet)
        sugg_is_sql == _looks_like_sql(suggestion)
        snip_is_sql == _looks_like_sql(snippet)
    IN  IF sugg_is_sql THEN Some(suggestion)
        ELSE IF _has_draft(suggestion) /\ ~_has_draft(snippet) /\ suggestion # << >>
             THEN Some(suggestion)
        ELSE IF snip_is_sql THEN Some(snippet)
        ELSE IF suggestion # << >> THEN Some(suggestion)
        ELSE IF snippet # << >> THEN Some(snippet)
        ELSE None

\* ------------------------------------------------------------------
\* build_assessment (src/app.py 89-99)
\* ------------------------------------------------------------------
\* sep.join(parts) for a list of str
RECURSIVE join(_, _)
join(sep, parts) ==
    IF parts = << >> THEN << >>
    ELSE IF Len(parts) = 1 THEN parts[1]
    ELSE parts[1] \o sep \o join(sep, Tail(parts))

\* line 91
blob(findings) ==
    upper(join(<<" ">>,
               [i \in 1..Len(findings) |->
                   OrEmpty(findings[i].snippet) \o <<" ">> \o OrEmpty(findings[i].suggestion)]))

\* mutant: the draft test applied to the normalized fields
with_draft_normalized(findings) ==
    Cardinality({i \in 1..Len(findings) :
                    \/ _has_draft(_normalize_text(findings[i].snippet))
                    \/ _has_draft(_normalize_text(findings[i].suggestion))})

\* line 94
with_draft(findings) ==
    Cardinality({i \in 1..Len(findings) :
                    \/ _has_draft(OrEmpty(findings[i].snippet))
                    \/ _has_draft(OrEmpty(findings[i].suggestion))})

build_assessment(findings) ==
    LET total == Len(findings)
        joins == count(blob(findings), JOIN_TOKEN)
        with_fae == count(blob(findings), FAE_TOKEN)
    IN  <<"Found ", ToString(total), " finding(s) (joins: ", ToString(joins),
          ", FAE: ", ToString(with_fae), "). ",
          ToString(with_draft(findings)), " statement(s) include draft filtering. ",
          "The prompt embeds clear remediation instructions followed by canonical SQL snippets (preferring ones with DRAFT filters).">>

\* ------------------------------------------------------------------
\* default_policy_bullets, build_request_text (src/app.py 101-129)
\* ------------------------------------------------------------------
default_policy_bullets(today) ==
    << <<"Remediate the ABAP code EXACTLY following these bullets.">>,
       <<"Apply conditional rules (e.g., draft/active predicates) ONLY when the relevant columns exist in the referenced tables/views.">>,
       <<"For SELECTs reading VBRP/VBRK in this customer landscape, append 'AND b~draft = space' and 'AND c~draft = space' (or matching aliases) when those columns exist.">>,
       <<"Avoid SELECT *; use explicit field lists. Keep S/4HANA Open SQL syntax (comma-separated field lists, @ host-variable escapes).">>,
       <<"Do NOT add ORDER BY to SELECT SINGLE. For top-1 by criterion, use 'ORDER BY {hellip} UP TO 1 ROWS'.">>,
       <<"When FOR ALL ENTRIES is used, guard with 'IF it[] IS NOT INITIAL.' and deduplicate keys before FAE.">>,
       <<"Keep behavior the same unless bullets say otherwise. Do not suppress warnings or add pseudo-comments.">>,
       <<"Every ADDED or MODIFIED line must end with an inline ABAP comment: \" Added By Pwc">> \o today,
       <<"Return ONLY strict JSON with key { \"remediated_code\": \"<full updated ABAP code with PwC comments on added/modified lines>\" }.">> >>

\* Python's  o or ''  for an Optional[str] identity field
OrEmptyField(o) == IF o = None THEN "" ELSE o[1]

build_request_text(u, bullets) ==
    LET ctx == <<"Context:\n",
                 "- Program: ", u.pgm_name, "\n",
                 "- Include: ", u.inc_name, "\n",
                 "- Unit type: ", u.type, "\n",
                 "- Unit name: ", OrEmptyField(u.name), "\n">>
        bullets_text == join(<<"\n">>, [i \in 1..Len(bullets) |-> <<"- ">> \o bullets[i]])
    IN  <<"Remediate the ABAP code shown below.\n\n">>
        \o ctx \o <<"\n">>
        \o <<"Rules you MUST follow:\n">>
        \o bullets_text \o <<"\n\n">>
        \o <<"Use the SQL snippets below as the canonical SELECT sources where applicable.">>

\* ------------------------------------------------------------------
\* compose_llm_prompt (src/app.py 131-157)
\* ------------------------------------------------------------------
\* the system clock is a day count; date.today() on day d
date_today(d) == [year |-> 2026, month |-> 11, day |-> 5 + d]
Pad2(n) == IF n < 10 THEN <<"0", ToString(n)>> ELSE <<ToString(n)>>
\* date.strftime("%Y-%m-%d")
strftime(dt) == <<ToString(dt.year), "-">> \o Pad2(dt.month) \o <<"-">> \o Pad2(dt.day)

\* mutant: the key of line 143 without .upper()
DedupStep_case_sensitive(st, cand) ==
    LET key == strip(cand)
    IN  IF key \in st.seen THEN st
        ELSE [seen |-> st.seen \cup {key},
              chosen_snippets |-> Append(st.chosen_snippets, cand)]

\* mutant: a repeated key is forgotten when it is skipped
DedupStep_forgetful(st, cand) ==
    LET key == upper(strip(cand))
    IN  IF key \in st.seen THEN [st EXCEPT !.seen = st.seen \ {key}]
        ELSE [seen |-> st.seen \cup {key},
              chosen_snippets |-> Append(st.chosen_snippets, cand)]

\* lines 143-147: one candidate through the seen set; st = [seen, chosen_snippets]
DedupStep(st, cand) ==
    LET key == upper(strip(cand))
    IN  IF key \in st.seen THEN st
        ELSE [seen |-> st.seen \cup {key},
              chosen_snippets |-> Append(st.chosen_snippets, cand)]

\* lines 140-147: the body of the loop over the findings
LoopBody(st, f) ==
    LET picked == choose_best_sql(f)
    IN  IF picked = None \/ picked = Some(<< >>) THEN st
        ELSE DedupStep(st, picked[1])

\* lines 137-147 on a list of candidates: the loop from an empty seen set
RECURSIVE DedupFrom(_, _)
DedupFrom(st, cands) ==
    IF cands = << >> THEN st.chosen_snippets
    ELSE DedupFrom(DedupStep(st, Head(cands)), Tail(cands))
Dedup(cands) == DedupFrom([seen |-> {}, chosen_snippets |-> << >>], cands)

FENCE_OPEN == "{bt}{bt}{bt}abap\n"
FENCE_CLOSE == "\n{bt}{bt}{bt}"
SECTION_HEADING == "\n\nSQL snippets to apply (prefer those with DRAFT filters):\n\n"

\* mutant: all the candidates inside one fence
snippets_block_one_fence(chosen) ==
    IF chosen # << >>
    THEN <<SECTION_HEADING, FENCE_OPEN>> \o join(<<"\n\n">>, chosen) \o <<FENCE_CLOSE, "\n">>
    ELSE << >>

\* lines 149-155
snippets_block(chosen) ==
    IF chosen # << >>
    THEN LET blocks == [i \in 1..Len(chosen) |-> <<FENCE_OPEN>> \o chosen[i] \o <<FENCE_CLOSE>>]
         IN  <<SECTION_HEADING>> \o join(<<"\n\n">>, blocks) \o <<"\n">>
    ELSE << >>

\* line 157
compose_return(req, chosen) ==
    req \o (IF snippets_block(chosen) # << >>
            THEN <<"\n\n">> \o snippets_block(chosen)
            ELSE <<"\n">>)

\* ------------------------------------------------------------------
\* build_llm_prompt (src/app.py 162-185)
\* ------------------------------------------------------------------
\* mutant: name filled from class_implementation
UnitOut_name_from_class(u, a, p) ==
    [pgm_name |-> u.pgm_name,
     inc_name |-> u.inc_name,
     type |-> u.type,
     name |-> Some(OrEmptyField(u.class_implementation)),
     class_implementation |-> Some(OrEmptyField(u.class_implementation)),
     start_line |-> IF u.start_line # 0 THEN u.start_line ELSE 0,
     end_line |-> IF u.end_line # 0 THEN u.end_line ELSE 0,
     assessment |-> a,
     llm_prompt |-> p]

UnitOut(u, a, p) ==
    [pgm_name |-> u.pgm_name,
     inc_name |-> u.inc_name,
     type |-> u.type,
     name |-> Some(OrEmptyField(u.name)),
     class_implementation |-> Some(OrEmptyField(u.class_implementation)),
     start_line |-> IF u.start_line # 0 THEN u.start_line ELSE 0,
     end_line |-> IF u.end_line # 0 THEN u.end_line ELSE 0,
     assessment |-> a,
     llm_prompt |-> p]

\* the unit the loop of line 170 is at
CurUnit == units[Len(results) + 1]

\* the system clock advances (environment); the program reads it at line 132
\* only, so the days that pass elsewhere are folded into those before a unit
Tick ==
    /\ pc = "units"
    /\ Len(results) < Len(units)
    /\ clock < MaxDay
    /\ clock' = clock + 1
    /\ UNCHANGED <<units, pc, results, assessment, today_str, request_text,
                   fi, sql, seen, chosen_snippets>>

\* lines 170-172 and 132-138: the next unit is assessed and its prompt begun
BeginUnit ==
    /\ pc = "units"
    /\ Len(results) < Len(units)
    /\ assessment' = build_assessment(CurUnit.findings)
    /\ today_str' = strftime(date_today(clock))
    /\ request_text' = build_request_text(CurUnit, default_policy_bullets(today_str'))
    /\ seen' = {}
    /\ chosen_snippets' = << >>
    /\ fi' = 0
    /\ sql' = None
    /\ pc' = "findings"
    /\ UNCHANGED <<units, clock, results>>

\* lines 139-147: one iteration of the loop over the unit's findings
NextFinding ==
    /\ pc = "findings"
    /\ fi < Len(CurUnit.findings)
    /\ LET f == CurUnit.findings[fi + 1]
           st == LoopBody([seen |-> seen, chosen_snippets |-> chosen_snippets], f)
       IN  /\ sql' = choose_best_sql(f)
           /\ seen' = st.seen
           /\ chosen_snippets' = st.chosen_snippets
    /\ fi' = fi + 1
    /\ UNCHANGED <<units, clock, pc, results, assessment, today_str, request_text>>

\* lines 149-157 and 174-184: the prompt is returned and the result appended
EndUnit ==
    /\ pc = "findings"
    /\ fi = Len(CurUnit.findings)
    /\ results' = Append(results,
                         UnitOut(CurUnit, assessment,
                                 compose_return(request_text, chosen_snippets)))
    /\ pc' = "units"
    /\ UNCHANGED <<units, clock, assessment, today_str, request_text,
                   fi, sql, seen, chosen_snippets>>

\* line 185
Return ==
    /\ pc = "units"
    /\ Len(results) = Len(units)
    /\ pc' = "done"
    /\ UNCHANGED <<units, clock, results, assessment, today_str, request_text,
                   fi, sql, seen, chosen_snippets>>

Next == Tick \/ BeginUnit \/ NextFinding \/ EndUnit \/ Return

\* ------------------------------------------------------------------
\* Inputs (src/app.py 14-34)
\* ------------------------------------------------------------------
FindingIn(suggestion, snippet) == [suggestion |-> suggestion, snippet |-> snippet]

UnitIn(pgm_name, inc_name, type, name, class_implementation, start_line, end_line, findings) ==
    [pgm_name |-> pgm_name, inc_name |-> inc_name, type |-> type, name |-> name,
     class_implementation |-> class_implementation,
     start_line |-> start_line, end_line |-> end_line, findings |-> findings]

\* the lists of at most n elements of S
SeqsUpTo(S, n) == UNION {[1..k -> S] : k \in 0..n}

\* the texts made of at most n of the fragments
Frags == { SELECT_TOKEN, <<"s", "e", "l", "e", "c", "t">>, <<" ">>, DRAFT_TOKEN, <<"=">>, <<"X">>, ESCAPED_CRLF }
RECURSIVE Texts(_)
Texts(n) ==
    IF n = 0 THEN {<< >>}
    ELSE LET T == Texts(n - 1) IN T \cup {t \o g : t \in T, g \in Frags}

SnippetPool ==
    { None, Some(<< >>), Some(<<" ", " ">>), Some(<<"X">>),
      Some(<<"S", "E", "L", "E", "C", "T", " ", "X">>), Some(<<" ", "S", "e", "l", "e", "c", "t">>), Some(<<"S", "E", "L", "E", "C", "T", "X">>),
      Some(<<"d", "r", "a", "f", "t", "=">>), Some(<<"X", "d", "r", "a", "f", "t", "=">>), Some(<<"s", "e", "l", "e", "c", "t", " ", "X", " ", "D", "r", "a", "f", "t", " ", "=">>) }

\* one finding, its suggestion any text of the fragments
SelFindings == {FindingIn(Some(t), n) : t \in Texts(MaxFrags), n \in SnippetPool}
                  \cup {FindingIn(None, n) : n \in SnippetPool}

\* the findings of the unit-level inputs
ScenarioA1 == FindingIn(Some(<<"S", "E", "L", "E", "C", "T", " ", "a", "~", "d", "r", "a", "f", "t", " ", "=", " ", "s", "p", "a", "c", "e", " ", "F", "R", "O", "M", " ", "V", "B", "R", "P", " ", "A", "S", " ", "a">>),
                        Some(<<"S", "E", "L", "E", "C", "T", " ", "*", " ", "F", "R", "O", "M", " ", "V", "B", "R", "P">>))
ScenarioA2 == FindingIn(Some(<< >>), Some(<< >>))
FindingPool ==
    { ScenarioA1, ScenarioA2,
      FindingIn(Some(<<"S", "E", "L", "E", "C", "T", " ", "A">>), None),
      FindingIn(Some(<<"s", "e", "l", "e", "c", "t", " ", "a">>), Some(<< >>)),
      FindingIn(None, Some(<<"S", "E", "L", "E", "C", "T", " ", "B">>)),
      FindingIn(Some(<< >>), Some(<<"A", " ", "J", "O", "I", "N">>)),
      FindingIn(Some(<<"S", "E", "L", "E", "C", "T", " ", "x", " ", "J", "O", "I", "N", " ", "y">>), Some(<< >>)),
      FindingIn(Some(<<"E", "N", "T", "R", "I", "E", "S", " ", "I", "N", " ", "t">>), Some(<<"F", "O", "R", " ", "A", "L", "L">>)),
      FindingIn(Some(<<"d", "r", "a", "f", "t", "\\", "r", "\\", "n", "=", " ", "1">>), Some(<<" ", " ">>)) }

TheUnit(findings) ==
    UnitIn("ZPROG", "ZINC", "FORM", Some("M1"), Some("CL1"), 10, 20, findings)

UnitPool ==
    { UnitIn("ZPROG", "ZINC", "FORM", n, c[1], c[2], c[3], fs) :
        n \in {None, Some(""), Some("M1")},
        c \in {<<None, 0, 0>>, <<Some("CL1"), 10, 20>>},
        fs \in {<< >>, <<ScenarioA1, ScenarioA2>>} }

InitLocals ==
    /\ clock = 1
    /\ pc = "units"
    /\ results = << >>
    /\ assessment = << >>
    /\ today_str = << >>
    /\ request_text = << >>
    /\ fi = 0
    /\ sql = None
    /\ seen = {}
    /\ chosen_snippets = << >>

\* a request of at most MaxUnits units
Init ==
    /\ units \in SeqsUpTo(UnitPool, MaxUnits)
    /\ InitLocals

\* a request of one unit of at most MaxFindings findings
InitUnit ==
    /\ units \in {<<TheUnit(fs)>> : fs \in SeqsUpTo(FindingPool, MaxFindings)}
    /\ InitLocals

\* a request of one unit of one finding
InitSel ==
    /\ units \in {<<TheUnit(<<f>>)>> : f \in SelFindings}
    /\ InitLocals

Spec == Init /\ [][Next]_vars
SpecUnit == InitUnit /\ [][Next]_vars
SpecSel == InitSel /\ [][Next]_vars

\* ------------------------------------------------------------------
\* Vocabulary of the properties
\* ------------------------------------------------------------------
RECURSIVE DropLeadingSpace(_)
DropLeadingSpace(s) ==
    IF s # << >> /\ IsSpace(Head(s)) THEN DropLeadingSpace(Tail(s)) ELSE s

\* s begins, after any whitespace, with the word SELECT in any letter case
BeginsWithSelect(s) ==
    LET t == DropLeadingSpace(s)
    IN  /\ Len(t) >= 6
        /\ upper(SubSeq(t, 1, 6)) = SELECT_TOKEN
        /\ (Len(t) = 6 \/ ~IsWord(t[7]))

\* s holds the word draft, in any letter case, then optional whitespace, then =
DraftPredicate(s) ==
    \E p \in 1..(Len(s) - 5) :
        /\ upper(SubSeq(s, p, p + 4)) = upper(DRAFT_TOKEN)
        /\ (p > 1 => ~IsWord(s[p - 1]))
        /\ \E q \in (p + 5)..Len(s) :
              /\ s[q] = "="
              /\ \A r \in (p + 5)..(q - 1) : IsSpace(s[r])

\* the finding the loop has just handled, and its two normalized candidates
LastFinding == CurUnit.findings[fi]
InLoop == pc = "findings" /\ fi > 0
LastSuggestion == _normalize_text(LastFinding.suggestion)
LastSnippet == _normalize_text(LastFinding.snippet)

\* the non-marker selections of the findings, in finding order (the marker,
\* an empty sequence, adds nothing to the concatenation)
RECURSIVE Candidates(_)
Candidates(fs) ==
    IF fs = << >> THEN << >>
    ELSE choose_best_sql(Head(fs)) \o Candidates(Tail(fs))

\* the loop over the findings of the current unit has run to its end
LoopDone == pc = "findings" /\ fi = Len(CurUnit.findings)

\* the candidates selected for the findings of the current unit
Selected == Candidates(CurUnit.findings)

\* the deduplication key of a candidate
Key(c) == upper(strip(c))

\* the k-th smallest element of a set of numbers
Kth(S, k) == CHOOSE x \in S : Cardinality({y \in S : y <= x}) = k

\* the positions of a piece in a composed text
Positions(text, piece) == {i \in 1..Len(text) : text[i] = piece}

RECURSIVE SumOver(_, _)
SumOver(fs, sub) ==
    IF fs = << >> THEN 0
    ELSE count(upper(_normalize_text(Head(fs).suggestion) \o _normalize_text(Head(fs).snippet)), sub)
         + SumOver(Tail(fs), sub)

\* ------------------------------------------------------------------
\* Properties
\* ------------------------------------------------------------------

\* C1: when the normalized suggestion of a finding begins with SELECT, the
\* selector returns exactly that normalized suggestion, whatever the snippet.
C1_SuggestionSelectWins ==
    InLoop /\ BeginsWithSelect(LastSuggestion) => sql = Some(LastSuggestion)

C1_Witness ==
    /\ InLoop
    /\ BeginsWithSelect(LastSuggestion)
    /\ BeginsWithSelect(LastSnippet)
    /\ DraftPredicate(LastSnippet)
    /\ LastSuggestion # LastSnippet
    /\ LastSuggestion # OrEmpty(LastFinding.suggestion)
    /\ sql = Some(LastSuggestion)

\* C2: a non-empty normalized suggestion that holds a draft predicate and
\* does not begin with SELECT is returned when the normalized snippet holds
\* no draft predicate, also when the snippet begins with SELECT.
C2_DraftSuggestionBeatsSnippet ==
    ( /\ InLoop
      /\ LastSuggestion # << >>
      /\ DraftPredicate(LastSuggestion)
      /\ ~BeginsWithSelect(LastSuggestion)
      /\ ~DraftPredicate(LastSnippet) )
    => sql = Some(LastSuggestion)

C2_Witness ==
    /\ InLoop
    /\ DraftPredicate(LastSuggestion)
    /\ ~BeginsWithSelect(LastSuggestion)
    /\ ~DraftPredicate(LastSnippet)
    /\ BeginsWithSelect(LastSnippet)
    /\ sql = Some(LastSuggestion)

\* C3: when neither rule 1 nor rule 2 applies, the selector returns the
\* snippet if it begins with SELECT, else the suggestion if non-empty, else
\* the snippet if non-empty; it returns the marker exactly when both
\* normalized candidates are empty; the result is one of the two candidates
\* or the marker.
C3_SnippetThenFallback ==
    ( /\ InLoop
      /\ ~BeginsWithSelect(LastSuggestion)
      /\ ~(DraftPredicate(LastSuggestion) /\ ~DraftPredicate(LastSnippet)) )
    => /\ BeginsWithSelect(LastSnippet) => sql = Some(LastSnippet)
       /\ ~BeginsWithSelect(LastSnippet) /\ LastSuggestion # << >>
             => sql = Some(LastSuggestion)
       /\ ~BeginsWithSelect(LastSnippet) /\ LastSuggestion = << >> /\ LastSnippet # << >>
             => sql = Some(LastSnippet)
       /\ sql = None <=> (LastSuggestion = << >> /\ LastSnippet = << >>)
       /\ sql \in {Some(LastSuggestion), Some(LastSnippet), None}

C3_Witness ==
    /\ InLoop
    /\ ~BeginsWithSelect(LastSuggestion)
    /\ LastSuggestion # << >>
    /\ LastSnippet # << >>
    /\ ~BeginsWithSelect(LastSnippet)
    /\ DraftPredicate(LastSuggestion)
    /\ DraftPredicate(LastSnippet)
    /\ sql = Some(LastSuggestion)

\* C4: when the loop has run, the candidate list it built keeps, in finding order, exactly
\* the first occurrence of each key among the selected candidates, in its
\* first-seen spelling.
C4_FirstOccurrencePerKey ==
    LoopDone =>
        \A X \in {Selected} :
        \A keys \in {[i \in DOMAIN X |-> Key(X[i])]} :
        \A K \in {{i \in DOMAIN X : \A j \in 1..(i - 1) : keys[j] # keys[i]}} :
            /\ Len(chosen_snippets) = Cardinality(K)
            /\ \A i \in K : chosen_snippets[Cardinality({j \in K : j <= i})] = X[i]
            /\ \A a, b \in DOMAIN chosen_snippets :
                  a # b => Key(chosen_snippets[a]) # Key(chosen_snippets[b])
            /\ \A i \in DOMAIN X : \E a \in DOMAIN chosen_snippets :
                  Key(chosen_snippets[a]) = keys[i]

C4_Witness ==
    /\ LoopDone
    /\ Selected = << <<"S", "E", "L", "E", "C", "T", " ", "A">>,
                  <<"s", "e", "l", "e", "c", "t", " ", "a">>,
                  <<"S", "E", "L", "E", "C", "T", " ", "B">> >>
    /\ chosen_snippets = << <<"S", "E", "L", "E", "C", "T", " ", "A">>,
                            <<"S", "E", "L", "E", "C", "T", " ", "B">> >>

\* C5: deduplicating the deduplicated list again changes nothing, and the
\* deduplicated list is never longer than the list of selected candidates.
C5_DedupIdempotent ==
    LoopDone =>
        \A X \in {Selected} :
            /\ chosen_snippets = Dedup(X)
            /\ Dedup(chosen_snippets) = chosen_snippets
            /\ Len(chosen_snippets) <= Len(X)

C5_Witness ==
    /\ LoopDone
    /\ fi = 3
    /\ Len(Selected) = 3
    /\ Len(chosen_snippets) = 1
    /\ Dedup(chosen_snippets) = chosen_snippets

\* C6: the joins and FAE numbers of the assessment are the sums, over the
\* findings, of the occurrences of " JOIN " and "FOR ALL ENTRIES" in the
\* uppercased concatenation of the finding's normalized suggestion and snippet.
C6_CountsPerFinding ==
    pc = "findings" =>
        /\ assessment[4] = ToString(SumOver(CurUnit.findings, JOIN_TOKEN))
        /\ assessment[6] = ToString(SumOver(CurUnit.findings, FAE_TOKEN))

\* C7: the total is the number of findings of the unit, also those with no
\* candidate; the draft number is the number of findings with a draft
\* predicate in at least one raw field, so it lies between 0 and the total.
C7_TotalsFromAllFindings ==
    LoopDone =>
        LET fs == CurUnit.findings
            d == Cardinality({i \in DOMAIN fs :
                                \/ DraftPredicate(OrEmpty(fs[i].suggestion))
                                \/ DraftPredicate(OrEmpty(fs[i].snippet))})
            withCandidate == {i \in 1..fi : choose_best_sql(fs[i]) # None}
        IN  /\ assessment[2] = ToString(Len(fs))
            /\ assessment[8] = ToString(d)
            /\ 0 <= d /\ d <= Len(fs)
            /\ Len(chosen_snippets) <= Cardinality(withCandidate)

C7_Witness ==
    /\ LoopDone
    /\ CurUnit.findings = <<ScenarioA1, ScenarioA2>>
    /\ fi = 2
    /\ sql = None
    /\ assessment[2] = "2"
    /\ assessment[8] = "1"
    /\ Len(chosen_snippets) = 1

\* the identity fields of a unit or of a result
Identity(r) ==
    <<r.pgm_name, r.inc_name, r.type, r.name, r.class_implementation,
      r.start_line, r.end_line>>

\* C8 as stated: the results are index-aligned with the units and the
\* identity fields of result i are a verbatim copy of those of unit i.
C8_VerbatimIdentity ==
    pc = "done" =>
        /\ Len(results) = Len(units)
        /\ \A i \in DOMAIN results : Identity(results[i]) = Identity(units[i])

\* a null name or class_implementation comes back as the empty string
NullAsEmpty(o) == IF o = None THEN Some("") ELSE o

\* C8 amended: the results are index-aligned with the units and the identity
\* fields of result i are those of unit i, except that a null name or
\* class_implementation is returned as the empty string.
C8_IdentityNullAsEmpty ==
    /\ Len(results) <= Len(units)
    /\ pc = "done" => Len(results) = Len(units)
    /\ \A i \in DOMAIN results :
          /\ results[i].pgm_name = units[i].pgm_name
          /\ results[i].inc_name = units[i].inc_name
          /\ results[i].type = units[i].type
          /\ results[i].name = NullAsEmpty(units[i].name)
          /\ results[i].class_implementation = NullAsEmpty(units[i].class_implementation)
          /\ results[i].start_line = units[i].start_line
          /\ results[i].end_line = units[i].end_line
          /\ results[i].assessment = build_assessment(units[i].findings)

C8_Witness ==
    /\ pc = "done"
    /\ Len(results) = 2
    /\ units[1].name = None
    /\ units[2].name = Some("M1")
    /\ units[1].start_line # units[2].start_line
    /\ results[1].name = Some("")
    /\ results[2].name = Some("M1")

\* C9: the prompt is the request text followed by one fence per deduplicated
\* candidate, in order, each fence holding exactly its candidate; with no
\* candidate there is no section heading and no fence.
C9_OneFencePerCandidate ==
    (pc \in {"units", "done"} /\ results # << >>) =>
        LET p == results[Len(results)].llm_prompt
            n == Len(chosen_snippets)
            opens == Positions(p, FENCE_OPEN)
            closes == Positions(p, FENCE_CLOSE)
            heads == Positions(p, SECTION_HEADING)
        IN  /\ SubSeq(p, 1, Len(request_text)) = request_text
            /\ Cardinality(opens) = n
            /\ Cardinality(closes) = n
            /\ Cardinality(heads) = IF n = 0 THEN 0 ELSE 1
            /\ \A h \in heads : h > Len(request_text) /\ \A o \in opens : h < o
            /\ \A k \in 1..n :
                  /\ Kth(opens, k) < Kth(closes, k)
                  /\ SubSeq(p, Kth(opens, k) + 1, Kth(closes, k) - 1) = chosen_snippets[k]
                  /\ k < n => Kth(closes, k) < Kth(opens, k + 1)

C9_Witness ==
    /\ pc = "done"
    /\ results # << >>
    /\ Len(chosen_snippets) = 2
    /\ Cardinality(Positions(results[1].llm_prompt, FENCE_OPEN)) = 2

\* C10: two results computed from the same unit carry the same prompt,
\* whatever the system clock showed when each was computed.
C10_PromptIndependentOfClock ==
    \A i, j \in DOMAIN results :
        units[i] = units[j] => results[i].llm_prompt = results[j].llm_prompt

=============================================================================
